---- MODULE Spec2Model ----
(***************************************************************************)
(* Model of src/alarm-monitor.py: the TexecomConnect client (frame         *)
(* encoding, CRC-8, sequence numbers, the command/response exchange with   *)
(* its timeout loop, the message handler) and the __main__ program that    *)
(* drives it (login, set_event_messages, get_date_time, get_all_zones,     *)
(* event_loop).                                                            *)
(*                                                                         *)
(* Python strings are sequences of byte values 0..255.  A Python value     *)
(* that may be None is a record [t, v]: NoneV, Unbound (a local that was   *)
(* never assigned) or Str(bytes).  The program is sequential: it blocks    *)
(* only in socket.recv, so every action is the code executed from one recv *)
(* to the next.  What recv delivers (a whole frame, the text "+++", or a   *)
(* timeout) is chosen by the environment.                                  *)
(*                                                                         *)
(* The source is Python 2 (str is a byte string, recv returns str).  An    *)
(* exception nobody catches ends the program: main = "crashed" and exc     *)
(* names it.  Time is counted in seconds and passes only while a recv      *)
(* runs into its timeout; a frame that is there is read at once.  Short    *)
(* reads and a closed socket are not modelled: recv delivers the header    *)
(* and the length the header announces.                                    *)
(***************************************************************************)
EXTENDS Integers, Sequences, FiniteSets, TLC

\* ---------------------------------------------------------------- bounds
MaxTime == 36
MaxZones == 1
MaxMessages == 2
MaxAllocs == 300

\* ------------------------------------------------------- program constants
LENGTH_HEADER == 4
HEADER_START == 116
HEADER_TYPE_COMMAND == 67
HEADER_TYPE_RESPONSE == 82
HEADER_TYPE_MESSAGE == 77
CMD_LOGIN == 1
CMD_GETZONEDETAILS == 3
CMD_GETLCDDISPLAY == 13
CMD_GETPANELIDENTIFICATION == 22
CMD_GETDATETIME == 23
CMD_SETEVENTMESSAGES == 37
ZONETYPE_UNUSED == 0
CMD_RESPONSE_ACK == 6
CMD_RESPONSE_NAK == 21
MSG_DEBUG == 0
MSG_ZONEEVENT == 1
MSG_AREAEVENT == 2
MSG_OUTPUTEVENT == 3
MSG_USEREVENT == 4
MSG_LOGEVENT == 5
SOCKET_TIMEOUT == 2
SEQ_WRAP == 256
RETRIES == 3
KEEPALIVE_AFTER == 30
GARAGE_ZONE == 73
PLUS == 43
udlpassword == <<49, 50, 51, 52>>

\* ---------------------------------------------------------- Python values
NoneV == [t |-> "None", v |-> <<>>]
Unbound == [t |-> "unbound", v |-> <<>>]
Str(b) == [t |-> "str", v |-> b]

Tail2(q) == SubSeq(q, 2, Len(q))
Front(q) == SubSeq(q, 1, Len(q) - 1)
Take(q, n) == SubSeq(q, 1, IF Len(q) < n THEN Len(q) ELSE n)

\* ------------------------------------------------------------------ CRC-8
RECURSIVE XorBits(_, _, _)
XorBits(a, b, n) ==
    IF n = 0 THEN 0
    ELSE (((a % 2) + (b % 2)) % 2) + (2 * XorBits(a \div 2, b \div 2, n - 1))

XorTab == [a \in 0..255 |-> [b \in 0..255 |-> XorBits(a, b, 8)]]

Xor(a, b) == XorTab[a][b]

\* one shift of the 8-bit register: poly 0x185 keeps its low byte 0x85
CrcShift(r) ==
    IF r >= 128 THEN Xor((2 * r) % 256, 133) ELSE (2 * r) % 256

CrcTab == [i \in 0..255 |->
    CrcShift(CrcShift(CrcShift(CrcShift(CrcShift(CrcShift(CrcShift(CrcShift(i))))))))]

\* the register after one byte
CrcStep == [r \in 0..255 |-> [b \in 0..255 |-> CrcTab[Xor(r, b)]]]

\* feed[r, lo, hi] is the register after the bytes data[lo..hi] were fed in
\* order into r; the range is halved so that a frame of 255 bytes nests 8
\* deep
crc8_func(data) ==
    LET n == Len(data)
        feed[r \in 0..255, lo \in 1..n, hi \in 1..n] ==
            IF lo = hi THEN CrcStep[r][data[lo]]
            ELSE feed[feed[r, lo, (lo + hi) \div 2], ((lo + hi) \div 2) + 1, hi]
    IN  IF n = 0 THEN 255 ELSE feed[255, 1, n]

\* ------------------------------------------------------- sequence numbers
\* variant: the counter is never wrapped
getnextseq_nowrap(n) == [next |-> n, nextseq |-> n + 1]

\* getnextseq: the value returned and the counter left behind
getnextseq(n) ==
    LET cur == IF n = SEQ_WRAP THEN 0 ELSE n
    IN  [next |-> cur, nextseq |-> cur + 1]

\* the sequence a Message must carry once one was seen (lines 127-129)
next_msg_seq(lrs) == IF lrs + 1 = SEQ_WRAP THEN 0 ELSE lrs + 1

\* ------------------------------------------------------------ text helpers
IsSpace(c) == c \in {9, 10, 11, 12, 13, 32}
IsWord(c) == (c \in 48..57) \/ (c \in 65..90) \/ (c \in 97..122) \/ (c = 95)

\* str.split(): the maximal runs of non-whitespace bytes
RECURSIVE SplitFrom(_, _, _, _)
SplitFrom(q, i, cur, acc) ==
    IF i > Len(q) THEN (IF cur = <<>> THEN acc ELSE Append(acc, cur))
    ELSE IF IsSpace(q[i])
         THEN SplitFrom(q, i + 1, <<>>, IF cur = <<>> THEN acc ELSE Append(acc, cur))
         ELSE SplitFrom(q, i + 1, Append(cur, q[i]), acc)

split(q) == SplitFrom(q, 1, <<>>, <<>>)

IsDigits(q) == Len(q) > 0 /\ \A i \in 1..Len(q) : q[i] \in 48..57

\* int() of a string of decimal digits
RECURSIVE int(_)
int(q) == IF Len(q) = 0 THEN 0 ELSE 10 * int(Front(q)) + (q[Len(q)] - 48)

\* re.sub(r'\W+', ' ', text) after replace("\x00", " "): every run of
\* non-word bytes becomes one space
RECURSIVE SubNonWord(_, _, _)
SubNonWord(q, i, acc) ==
    IF i > Len(q) THEN acc
    ELSE IF IsWord(q[i]) THEN SubNonWord(q, i + 1, Append(acc, q[i]))
    ELSE IF i > 1 /\ ~IsWord(q[i - 1]) THEN SubNonWord(q, i + 1, acc)
    ELSE SubNonWord(q, i + 1, Append(acc, 32))

RECURSIVE LStrip(_)
LStrip(q) == IF Len(q) > 0 /\ IsSpace(q[1]) THEN LStrip(Tail2(q)) ELSE q

RECURSIVE RStrip(_)
RStrip(q) == IF Len(q) > 0 /\ IsSpace(q[Len(q)]) THEN RStrip(Front(q)) ELSE q

zonetext(raw) == RStrip(LStrip(SubNonWord(raw, 1, <<>>)))

RECURSIVE Pad(_, _, _)
Pad(q, n, c) == IF Len(q) >= n THEN q ELSE Pad(Append(q, c), n, c)

\* ------------------------------------------------------- message handling
\* the zone number and bitmap debug_print_message decodes (lines 317-322)
ZoneEventDecode(p) ==
    IF Len(p) = 2 THEN [zone_number |-> p[1], zone_bitmap |-> p[2]]
    ELSE [zone_number |-> p[1] + 256 * p[2], zone_bitmap |-> p[3]]

\* debug_print_message: "ok" or the exception it raises
debug_print_message(payload, zn) ==
    IF Len(payload) = 0 THEN "IndexError"
    ELSE LET msg_type == payload[1]
             p == Tail2(payload)
         IN  IF msg_type = MSG_DEBUG THEN "ok"
             ELSE IF msg_type = MSG_ZONEEVENT THEN
                 IF Len(p) \notin {2, 3} THEN "UnboundLocalError"
                 ELSE IF ZoneEventDecode(p).zone_number \in DOMAIN zn THEN "ok"
                 ELSE "KeyError"
             ELSE IF msg_type = MSG_AREAEVENT THEN
                 IF Len(p) < 2 \/ p[2] >= 6 THEN "IndexError" ELSE "ok"
             ELSE IF msg_type = MSG_OUTPUTEVENT THEN
                 IF Len(p) < 2 THEN "IndexError" ELSE "ok"
             ELSE IF msg_type = MSG_USEREVENT THEN
                 IF Len(p) < 2 \/ p[2] >= 3 THEN "IndexError" ELSE "ok"
             ELSE "ok"

\* message_handler: the exception it raises ("ok" when it returns) and the
\* value it leaves in the global garage_pir_activated_at.  Both branches of
\* the garage zone call self.log in a function that has no self, so they
\* raise NameError before the global is assigned.
message_handler(payload, zn, garage) ==
    LET e == debug_print_message(payload, zn)
    IN  IF e # "ok" THEN [exc |-> e, garage |-> garage]
        ELSE IF payload[1] = MSG_ZONEEVENT /\ payload[2] = GARAGE_ZONE
             THEN [exc |-> "NameError", garage |-> garage]
             ELSE [exc |-> "ok", garage |-> garage]

\* ------------------------------------------------------------ recvresponse
\* variant: the Response sequence is not looked at
ResponseSeqRejected_never(msg_sequence, last_seq) == FALSE

\* line 121: a Response is refused unless it echoes the last sequence sent
ResponseSeqRejected(msg_sequence, last_seq) == msg_sequence # last_seq

\* variant: the Message is compared with the last sequence, not the next
MessageSeqRejected_last(msg_sequence, lrs) ==
    lrs # -1 /\ msg_sequence # lrs

\* lines 126-130: a Message is refused once one was seen and this one does
\* not carry the next sequence
MessageSeqRejected(msg_sequence, lrs) ==
    lrs # -1 /\ msg_sequence # next_msg_seq(lrs)

\* variant: a refused Message still becomes the last one seen
MessageSeqResult_resync(b) == [b EXCEPT !.what = "msgseq", !.lrs = b.seq]

\* lines 130-133: the refused Message is logged and None returned; line 134
\* is not reached, so last_received_seq stays
MessageSeqResult(b) == [b EXCEPT !.what = "msgseq"]

\* variant: the socket is kept
DroppedResult_keep(base) == [base EXCEPT !.what = "+++"]

\* lines 104-106: the connection was dropped; the socket is forgotten and
\* None returned
DroppedResult(base) == [base EXCEPT !.s = "None", !.what = "+++"]

\* One pass of the while loop of recvresponse on the bytes recv delivers:
\*   kind "return": recvresponse returns value (NoneV or the payload),
\*   kind "loop":   a Message was handed to the handler (or the frame type
\*                  matched no branch) and the loop reads again,
\*   kind "raise":  the handler raised exc.
\* what names the branch taken, seq the frame's sequence byte, payload the
\* local payload after line 112.
recvresponse(data, last_seq, lrs, zn, garage) ==
    LET header == Take(data, LENGTH_HEADER)
        base == [kind |-> "return", value |-> NoneV, s |-> "open", lrs |-> lrs,
                 garage |-> garage, exc |-> "ok", what |-> "", seq |-> -1,
                 payload |-> <<>>]
    IN  IF header = <<PLUS, PLUS, PLUS>>
        THEN DroppedResult(base)
        ELSE
        LET msg_start == header[1]
            msg_type == header[2]
            msg_length == header[3]
            msg_sequence == header[4]
            rest == SubSeq(data, LENGTH_HEADER + 1, msg_length)
            payload == Front(rest)
            msg_crc == rest[Len(rest)]
            expected_crc == crc8_func(header \o payload)
            b == [base EXCEPT !.seq = msg_sequence, !.payload = payload]
        IN  IF msg_start # HEADER_START THEN [b EXCEPT !.what = "badstart"]
            ELSE IF msg_crc # expected_crc THEN [b EXCEPT !.what = "crc"]
            ELSE IF msg_type = HEADER_TYPE_RESPONSE
                    /\ ResponseSeqRejected(msg_sequence, last_seq)
                 THEN [b EXCEPT !.what = "respseq"]
            ELSE IF msg_type = HEADER_TYPE_MESSAGE
                    /\ MessageSeqRejected(msg_sequence, lrs)
                 THEN MessageSeqResult(b)
            ELSE IF msg_type = HEADER_TYPE_COMMAND THEN [b EXCEPT !.what = "command"]
            ELSE IF msg_type = HEADER_TYPE_RESPONSE
                 THEN [b EXCEPT !.what = "response", !.value = Str(payload)]
            ELSE IF msg_type = HEADER_TYPE_MESSAGE
                 THEN LET h == message_handler(payload, zn, garage)
                      IN  [b EXCEPT !.kind = IF h.exc = "ok" THEN "loop" ELSE "raise",
                                    !.lrs = msg_sequence, !.garage = h.garage,
                                    !.exc = h.exc, !.what = "message"]
            ELSE [b EXCEPT !.kind = "loop", !.what = "other"]

\* a frame's sequence byte and the bytes between its header and checksum
FrameSeq(f) == f[4]
FramePayload(f) == SubSeq(f, LENGTH_HEADER + 1, Len(f) - 1)

\* ------------------------------------------------------------- the command
\* variant: the checksum covers the body only
CommandFrame_bodycrc(seq, body) ==
    LET data == <<HEADER_START, HEADER_TYPE_COMMAND, Len(body) + 5, seq>> \o body
    IN  Append(data, crc8_func(body))

\* the frame sendcommandbody builds for body under sequence seq
CommandFrame(seq, body) ==
    LET data == <<HEADER_START, HEADER_TYPE_COMMAND, Len(body) + 5, seq>> \o body
    IN  Append(data, crc8_func(data))

\* the body sendcommand passes on: cmd+body, or cmd alone for an empty or
\* absent body (lines 190-193)
CommandBody(c, body) == IF body.t = "str" /\ Len(body.v) > 0 THEN <<c>> \o body.v ELSE <<c>>

\* variant: the reply's opcode is not looked at
OpcodeMatches_any(commandid, c) == TRUE

\* line 210: the reply answers the command that was asked
OpcodeMatches(commandid, c) == commandid = c

\* lines 209-217 of sendcommand on the value recvresponse left in response:
\* ret is the value returned, exc the exception raised instead, log the
\* line written
SendcommandResult(c, resp) ==
    IF resp.t = "unbound" THEN [ret |-> NoneV, exc |-> "UnboundLocalError", log |-> ""]
    ELSE IF resp.t = "None" THEN [ret |-> NoneV, exc |-> "TypeError", log |-> ""]
    ELSE IF Len(resp.v) = 0 THEN [ret |-> NoneV, exc |-> "IndexError", log |-> ""]
    ELSE LET commandid == resp.v[1]
             payload == Tail2(resp.v)
         IN  IF ~OpcodeMatches(commandid, c) THEN
                 IF commandid = CMD_LOGIN /\ Len(payload) = 0
                 THEN [ret |-> NoneV, exc |-> "IndexError", log |-> ""]
                 ELSE IF commandid = CMD_LOGIN /\ payload[1] = CMD_RESPONSE_NAK
                 THEN [ret |-> NoneV, exc |-> "ok", log |-> "session has timed out"]
                 ELSE [ret |-> NoneV, exc |-> "ok", log |-> "wrong command id"]
             ELSE [ret |-> Str(payload), exc |-> "ok", log |-> ""]

\* ---------------------------------------------------- the callers' results
\* variant: a byte that is neither ACK nor NAK counts as success
AckResult_lenient(res) ==
    IF res.t = "str" /\ res.v = <<CMD_RESPONSE_NAK>> THEN [ret |-> FALSE, exc |-> "ok"]
    ELSE IF res.t = "str" /\ Len(res.v) = 1 THEN [ret |-> TRUE, exc |-> "ok"]
    ELSE [ret |-> FALSE, exc |-> "TypeError"]

\* login and set_event_messages on the value sendcommand returned
\* (lines 159-165, 177-183): ord() of None or of a string whose length is
\* not 1 raises TypeError
AckResult(res) ==
    IF res.t = "str" /\ res.v = <<CMD_RESPONSE_NAK>> THEN [ret |-> FALSE, exc |-> "ok"]
    ELSE IF res.t = "str" /\ res.v = <<CMD_RESPONSE_ACK>> THEN [ret |-> TRUE, exc |-> "ok"]
    ELSE IF res.t = "str" /\ Len(res.v) = 1 THEN [ret |-> FALSE, exc |-> "ok"]
    ELSE [ret |-> FALSE, exc |-> "TypeError"]

\* get_date_time (lines 221-230): the too-short branch logs a name that is
\* not defined
GetDateTimeResult(res) ==
    IF res.t = "None" THEN [ret |-> NoneV, exc |-> "ok"]
    ELSE IF Len(res.v) < 6 THEN [ret |-> NoneV, exc |-> "NameError"]
    ELSE [ret |-> Str(<<res.v[3], res.v[2], res.v[1], res.v[4], res.v[5], res.v[6]>>),
          exc |-> "ok"]

\* get_panel_identification (lines 245-252)
GetPanelIdentificationResult(res) ==
    IF res.t = "None" THEN [ret |-> NoneV, exc |-> "ok"]
    ELSE IF Len(res.v) # 32 THEN [ret |-> NoneV, exc |-> "NameError"]
    ELSE [ret |-> res, exc |-> "ok"]

\* lines 274-275 of get_all_zones on the identification string
ParseNumOfZones(idstr) ==
    IF idstr.t = "None" THEN [n |-> 0, exc |-> "AttributeError"]
    ELSE LET f == split(idstr.v)
         IN  IF Len(f) # 4 THEN [n |-> 0, exc |-> "ValueError"]
             ELSE IF ~IsDigits(f[2]) THEN [n |-> 0, exc |-> "ValueError"]
             ELSE [n |-> int(f[2]), exc |-> "ok"]

\* get_zone_details (lines 257-270) and the unpacking at line 278
GetZoneDetailsResult(res) ==
    IF res.t = "None" THEN [ret |-> [type |-> 0, areas |-> 0, text |-> <<>>], exc |-> "TypeError"]
    ELSE IF Len(res.v) < 34
         THEN [ret |-> [type |-> 0, areas |-> 0, text |-> <<>>], exc |-> "NameError"]
    ELSE [ret |-> [type |-> res.v[1], areas |-> res.v[2],
                   text |-> zonetext(SubSeq(res.v, 3, Len(res.v)))],
          exc |-> "ok"]

\* lines 290-295 of event_loop: the garage timer restarts after 4 minutes
EventLoopTop(garage, t) == IF garage > 0 /\ t - garage > 4 * 60 THEN t ELSE garage

\* variant: the keepalive is already sent at 30 seconds
KeepaliveDue_at(t, lct) == t - lct >= KEEPALIVE_AFTER

\* line 304: whether the timeout handler sends the keepalive
KeepaliveDue(t, lct) == t - lct > KEEPALIVE_AFTER

\* ------------------------------------------------------ what the panel sends
\* a frame as the panel encodes it; flip damages the checksum byte
PanelFrame(start, type, seq, payload, flip) ==
    LET hp == <<start, type, Len(payload) + 5, seq>> \o payload
        c == crc8_func(hp)
    IN  Append(hp, IF flip THEN Xor(c, 1) ELSE c)

DateTimeBody == <<6, 11, 18, 9, 30, 0>>
IdentBody(n) == Pad(<<69, 32, 48 + n, 32, 120, 32, 86, 52>>, 32, 32)
IdentThreeFields == Pad(<<69, 32, 49, 32, 86, 52>>, 32, 32)
ZoneDetailsBody == <<1, 1>> \o Pad(<<72, 97, 108, 108, 0, 0, 45, 49>>, 32, 0)
RespBodies ==
    {<<>>, <<CMD_RESPONSE_ACK>>, <<CMD_RESPONSE_NAK>>, <<7>>, DateTimeBody,
     IdentThreeFields, ZoneDetailsBody} \cup {IdentBody(n) : n \in 0..MaxZones}
MismatchBodies == {<<>>, <<CMD_RESPONSE_ACK>>, <<CMD_RESPONSE_NAK>>}
MsgPayloads ==
    {<<MSG_DEBUG, 1>>, <<MSG_ZONEEVENT, 1, 1>>, <<MSG_ZONEEVENT, GARAGE_ZONE, 1>>,
     <<MSG_AREAEVENT, 1, 3>>}

Response(q, payload) == PanelFrame(HEADER_START, HEADER_TYPE_RESPONSE, q, payload, FALSE)
Message(q, payload) == PanelFrame(HEADER_START, HEADER_TYPE_MESSAGE, q, payload, FALSE)

\* replies to the pending command c under its sequence ls, replies under
\* that sequence with another opcode, and replies under another sequence
Responses(c, ls) ==
    {Response(ls, <<c>> \o b) : b \in RespBodies}
    \cup {Response(ls, <<o>> \o b) : o \in {CMD_LOGIN, CMD_GETLCDDISPLAY}, b \in MismatchBodies}
    \cup {Response(q, <<c, CMD_RESPONSE_ACK>>) : q \in {(ls + 1) % 256, (ls + 255) % 256}}

\* the first Message of a session carries 0 or 255; later ones continue the
\* sequence, repeat it or skip one
Messages(lrs) ==
    IF lrs = -1 THEN {Message(q, m) : q \in {0, 255}, m \in MsgPayloads}
    ELSE {Message((lrs + 1) % 256, m) : m \in MsgPayloads}
         \cup {Message(q, <<MSG_DEBUG, 1>>) : q \in {lrs, (lrs + 2) % 256}}

Damaged(c, ls, lrs) ==
    {PanelFrame(120, HEADER_TYPE_RESPONSE, ls, <<c, CMD_RESPONSE_ACK>>, FALSE),
     PanelFrame(HEADER_START, HEADER_TYPE_RESPONSE, ls, <<c, CMD_RESPONSE_ACK>>, TRUE),
     PanelFrame(120, HEADER_TYPE_MESSAGE, (lrs + 1) % 256, <<MSG_DEBUG, 1>>, FALSE),
     PanelFrame(HEADER_START, HEADER_TYPE_MESSAGE, (lrs + 1) % 256, <<MSG_DEBUG, 1>>, TRUE),
     PanelFrame(HEADER_START, HEADER_TYPE_COMMAND, ls, <<c>>, FALSE),
     PanelFrame(HEADER_START, 88, ls, <<c>>, FALSE)}
Dropped == <<PLUS, PLUS, PLUS>>

\* ------------------------------------------------------------------- state
VARIABLES
    main,       \* statement of __main__ in progress, "exit" or "crashed"
    pc,         \* "run", "wait" (recv in sendcommand), "ret", "scan",
                \* "idle" (recv in event_loop), "end"
    op,         \* the method whose sendcommand is in progress
    body,       \* sendcommand's body after lines 190-193
    cmd,        \* sendcommand's cmd
    retries,    \* sendcommand's retries
    response,   \* sendcommand's response
    result,     \* the value sendcommand returned
    exc,        \* the uncaught exception that ended the program
    num_of_zones, zoneidx,          \* locals of get_all_zones
    nextseq, last_sequence, last_command, last_command_time,
    last_received_seq, zone, s,     \* attributes of TexecomConnect
    garage_pir_activated_at,        \* the module's global
    now,        \* time.time(), in seconds
    wire,       \* the frames sent since sendcommand was entered
    lastrecv,   \* what the last recv delivered and how it was classified
    logged,     \* the last line sendcommand logged
    allocs,     \* number of calls of getnextseq
    nmsgs       \* number of Messages accepted

vars == <<main, pc, body, op, cmd, retries, response, result, exc, num_of_zones,
          zoneidx, nextseq, last_sequence, last_command, last_command_time,
          last_received_seq, zone, s, garage_pir_activated_at, now, wire,
          lastrecv, logged, allocs, nmsgs>>

\* the variables sendcommand's entry writes
xchg == <<pc, body, op, cmd, retries, response, result, nextseq, last_sequence,
          last_command, last_command_time, wire, allocs>>
\* the attributes a recv can change
rcvd == <<last_received_seq, s, garage_pir_activated_at, lastrecv, nmsgs>>
scan == <<num_of_zones, zoneidx, zone>>

NoRecv == [what |-> "", seq |-> -1, payload |-> <<>>]
TimedOut == [what |-> "timeout", seq |-> -1, payload |-> <<>>]
\* what is kept of a recv: the branch recvresponse took and, for a frame
\* that passed the sequence checks, its sequence; for a Message or Command
\* also the payload
Observed(r) ==
    [what |-> r.what,
     seq |-> IF r.what \in {"response", "message", "command"} THEN r.seq ELSE -1,
     payload |-> IF r.what \in {"message", "command"} THEN r.payload ELSE <<>>]

\* the Messages accepted so far, counted up to MaxMessages
Counted(n, r) == IF r.what = "message" /\ n < MaxMessages THEN n + 1 ELSE n

\* __init__ (lines 59-68), before connect
Init ==
    /\ main = "connect" /\ pc = "run" /\ op = "none" /\ cmd = 0 /\ body = <<>>
    /\ retries = 0 /\ response = Unbound /\ result = Unbound /\ exc = "ok"
    /\ num_of_zones = 0 /\ zoneidx = 0
    /\ nextseq = 0 /\ last_sequence = -1 /\ last_command = <<>>
    /\ last_command_time = 0 /\ last_received_seq = -1
    /\ zone = <<>> /\ s = "unset" /\ garage_pir_activated_at = 0
    /\ now = 1 /\ wire = <<>> /\ lastrecv = NoRecv /\ logged = ""
    /\ allocs = 0 /\ nmsgs = 0

\* an uncaught exception ends the program
Raise(e) == main' = "crashed" /\ pc' = "end" /\ exc' = e
\* sys.exit(1)
Exit == main' = "exit" /\ pc' = "end" /\ exc' = exc

\* variant: sendcommandbody calls getnextseq twice and uses the second value
Sendcommandbody_twice(bd, t) ==
    LET g == getnextseq(getnextseq(nextseq).nextseq)
        data == CommandFrame(g.next, bd)
    IN  /\ nextseq' = g.nextseq
        /\ last_sequence' = g.next
        /\ last_command' = data
        /\ last_command_time' = t
        /\ wire' = <<data>>
        /\ allocs' = allocs + 2

\* sendcommandbody (lines 145-155) on bd at time t: it takes the next
\* sequence, sends the frame and remembers it
Sendcommandbody(bd, t) ==
    LET g == getnextseq(nextseq)
        data == CommandFrame(g.next, bd)
    IN  /\ nextseq' = g.nextseq
        /\ last_sequence' = g.next
        /\ last_command' = data
        /\ last_command_time' = t
        /\ wire' = <<data>>
        /\ allocs' = allocs + 1

\* sendcommand up to its first recv (lines 190-199): the body is prefixed
\* with cmd, sendcommandbody sends it at time t and the loop is entered once
Sendcommand(o, c, b, t) ==
    /\ body' = CommandBody(c, b)
    /\ Sendcommandbody(body', t)
    /\ op' = o /\ cmd' = c
    /\ retries' = RETRIES - 1
    /\ response' = Unbound
    /\ result' = Unbound
    /\ pc' = "wait"

\* connect (lines 73-85)
Connect ==
    /\ main = "connect" /\ pc = "run"
    /\ s' = "open" /\ main' = "login"
    /\ UNCHANGED <<pc, body, op, cmd, retries, response, result, exc, num_of_zones,
                   zoneidx, nextseq, last_sequence, last_command,
                   last_command_time, last_received_seq, zone,
                   garage_pir_activated_at, now, wire, lastrecv, logged,
                   allocs, nmsgs>>

\* tc.login(udlpassword), line 424
MainLogin ==
    /\ main = "login" /\ pc = "run"
    /\ Sendcommand("login", CMD_LOGIN, Str(udlpassword), now)
    /\ UNCHANGED <<main, exc, now, logged>>
    /\ UNCHANGED rcvd /\ UNCHANGED scan

\* tc.set_event_messages(), line 428; the body is the 16-bit mask 0x3e
MainSetEventMessages ==
    /\ main = "set_event_messages" /\ pc = "run"
    /\ Sendcommand("set_event_messages", CMD_SETEVENTMESSAGES, Str(<<62, 0>>), now)
    /\ UNCHANGED <<main, exc, now, logged>>
    /\ UNCHANGED rcvd /\ UNCHANGED scan

\* tc.get_date_time(), line 431
MainGetDateTime ==
    /\ main = "get_date_time" /\ pc = "run"
    /\ Sendcommand("get_date_time", CMD_GETDATETIME, NoneV, now)
    /\ UNCHANGED <<main, exc, now, logged>>
    /\ UNCHANGED rcvd /\ UNCHANGED scan

\* tc.get_all_zones(), line 432, up to the recv of get_panel_identification
MainGetAllZones ==
    /\ main = "get_all_zones" /\ pc = "run"
    /\ Sendcommand("get_panel_identification", CMD_GETPANELIDENTIFICATION, NoneV, now)
    /\ UNCHANGED <<main, exc, now, logged>>
    /\ UNCHANGED rcvd /\ UNCHANGED scan

\* the bytes a recv may deliver while a command is pending
RxInputs ==
    {Dropped} \cup Responses(cmd, last_sequence)
    \cup Damaged(cmd, last_sequence, last_received_seq)
    \cup (IF nmsgs < MaxMessages THEN Messages(last_received_seq) ELSE {})

\* the bytes a recv may deliver in event_loop, which drops what
\* recvresponse returns: one late reply stands for all of them
RxIdle ==
    {Dropped, Response(last_sequence, <<cmd, CMD_RESPONSE_ACK>>),
     Response((last_sequence + 255) % 256, <<cmd, CMD_RESPONSE_ACK>>)}
    \cup Damaged(cmd, last_sequence, last_received_seq)
    \cup (IF nmsgs < MaxMessages THEN Messages(last_received_seq) ELSE {})

\* variant: a frame recvresponse refuses makes sendcommand send the command
\* again and wait on
SendcommandRecv_resend(data) ==
    /\ pc = "wait"
    /\ \E r \in {recvresponse(data, last_sequence, last_received_seq, zone,
                             garage_pir_activated_at)} :
       LET sr == SendcommandResult(cmd, r.value)
       IN  /\ lastrecv' = Observed(r)
           /\ s' = r.s
           /\ last_received_seq' = r.lrs
           /\ garage_pir_activated_at' = r.garage
           /\ nmsgs' = Counted(nmsgs, r)
           /\ IF r.kind = "loop"
              THEN UNCHANGED <<main, pc, exc, response, result, logged, wire>>
              ELSE IF r.kind = "raise"
              THEN Raise(r.exc) /\ UNCHANGED <<response, result, logged, wire>>
              ELSE IF r.value = NoneV
              THEN /\ wire' = Append(wire, last_command)
                   /\ UNCHANGED <<main, pc, exc, response, result, logged>>
              ELSE /\ response' = r.value
                   /\ logged' = sr.log
                   /\ wire' = wire
                   /\ IF sr.exc # "ok"
                      THEN Raise(sr.exc) /\ UNCHANGED result
                      ELSE /\ result' = sr.ret /\ pc' = "ret"
                           /\ UNCHANGED <<main, exc>>
    /\ UNCHANGED <<body, op, cmd, retries, nextseq, last_sequence, last_command,
                   last_command_time, allocs, now>>
    /\ UNCHANGED scan

\* recv inside sendcommand delivers data (lines 199-200 and 209-217)
SendcommandRecv(data) ==
    /\ pc = "wait"
    /\ \E r \in {recvresponse(data, last_sequence, last_received_seq, zone,
                             garage_pir_activated_at)} :
       LET sr == SendcommandResult(cmd, r.value)
       IN  /\ lastrecv' = Observed(r)
           /\ s' = r.s
           /\ last_received_seq' = r.lrs
           /\ garage_pir_activated_at' = r.garage
           /\ nmsgs' = Counted(nmsgs, r)
           /\ IF r.kind = "loop"
              THEN UNCHANGED <<main, pc, exc, response, result, logged>>
              ELSE IF r.kind = "raise"
              THEN Raise(r.exc) /\ UNCHANGED <<response, result, logged>>
              ELSE /\ response' = r.value
                   /\ logged' = sr.log
                   /\ IF sr.exc # "ok"
                      THEN Raise(sr.exc) /\ UNCHANGED result
                      ELSE /\ result' = sr.ret /\ pc' = "ret"
                           /\ UNCHANGED <<main, exc>>
    /\ UNCHANGED <<body, op, cmd, retries, nextseq, last_sequence, last_command,
                   last_command_time, wire, allocs, now>>
    /\ UNCHANGED scan

\* variant: the timeout handler calls sendcommandbody again, so the
\* retransmission is encoded afresh under the next sequence
SendcommandTimeout_reencode ==
    /\ pc = "wait"
    /\ now + SOCKET_TIMEOUT <= MaxTime
    /\ now' = now + SOCKET_TIMEOUT
    /\ lastrecv' = TimedOut
    /\ logged' = "Timeout waiting for response"
    /\ LET g == getnextseq(nextseq)
           data == CommandFrame(g.next, FramePayload(last_command))
       IN  /\ nextseq' = g.nextseq /\ last_sequence' = g.next
           /\ last_command' = data /\ last_command_time' = now'
           /\ wire' = Append(wire, data)
           /\ allocs' = allocs + 1
    /\ IF retries > 0
       THEN /\ retries' = retries - 1
            /\ UNCHANGED <<main, pc, exc>>
       ELSE /\ Raise(SendcommandResult(cmd, response).exc)
            /\ UNCHANGED retries
    /\ UNCHANGED <<body, op, cmd, response, result, last_received_seq,
                   s, garage_pir_activated_at, nmsgs>>
    /\ UNCHANGED scan

\* recv inside sendcommand times out (lines 201-207, then 196-197 or 209)
SendcommandTimeout ==
    /\ pc = "wait"
    /\ now + SOCKET_TIMEOUT <= MaxTime
    /\ now' = now + SOCKET_TIMEOUT
    /\ lastrecv' = TimedOut
    /\ logged' = "Timeout waiting for response"
    /\ wire' = Append(wire, last_command)
    /\ IF retries > 0
       THEN /\ retries' = retries - 1
            /\ UNCHANGED <<main, pc, exc>>
       ELSE /\ Raise(SendcommandResult(cmd, response).exc)
            /\ UNCHANGED retries
    /\ UNCHANGED <<body, op, cmd, response, result, nextseq, last_sequence,
                   last_command, last_command_time, allocs, last_received_seq,
                   s, garage_pir_activated_at, nmsgs>>
    /\ UNCHANGED scan

held == <<body, op, cmd, retries, response, result, nextseq, last_sequence,
          last_command, last_command_time, wire, allocs, now, lastrecv, logged>>

\* variant: line 424 does not look at what login returned
LoginReturn_always ==
    /\ pc = "ret" /\ op = "login"
    /\ LET a == AckResult(result)
       IN  IF a.exc # "ok" THEN Raise(a.exc)
           ELSE main' = "set_event_messages" /\ pc' = "run" /\ exc' = exc
    /\ UNCHANGED held /\ UNCHANGED rcvd /\ UNCHANGED scan

\* login returns to line 424
LoginReturn ==
    /\ pc = "ret" /\ op = "login"
    /\ LET a == AckResult(result)
       IN  IF a.exc # "ok" THEN Raise(a.exc)
           ELSE IF a.ret THEN main' = "set_event_messages" /\ pc' = "run" /\ exc' = exc
           ELSE Exit
    /\ UNCHANGED held /\ UNCHANGED rcvd /\ UNCHANGED scan

\* set_event_messages returns to line 428
SetEventMessagesReturn ==
    /\ pc = "ret" /\ op = "set_event_messages"
    /\ LET a == AckResult(result)
       IN  IF a.exc # "ok" THEN Raise(a.exc)
           ELSE IF a.ret THEN main' = "get_date_time" /\ pc' = "run" /\ exc' = exc
           ELSE Exit
    /\ UNCHANGED held /\ UNCHANGED rcvd /\ UNCHANGED scan

\* get_date_time returns to line 431, where the value is dropped, or to
\* line 306 of event_loop, where None ends the program
GetDateTimeReturn ==
    /\ pc = "ret" /\ op = "get_date_time"
    /\ LET d == GetDateTimeResult(result)
       IN  IF d.exc # "ok" THEN Raise(d.exc)
           ELSE IF main = "get_date_time"
           THEN main' = "get_all_zones" /\ pc' = "run" /\ exc' = exc
           ELSE IF d.ret = NoneV THEN Exit
           ELSE pc' = "idle" /\ UNCHANGED <<main, exc>>
    /\ UNCHANGED held /\ UNCHANGED rcvd /\ UNCHANGED scan

\* get_panel_identification returns to line 273; lines 274-276
GetPanelIdentificationReturn ==
    /\ pc = "ret" /\ op = "get_panel_identification"
    /\ LET i == GetPanelIdentificationResult(result)
           n == ParseNumOfZones(i.ret)
       IN  IF i.exc # "ok" THEN Raise(i.exc) /\ UNCHANGED <<num_of_zones, zoneidx>>
           ELSE IF n.exc # "ok" THEN Raise(n.exc) /\ UNCHANGED <<num_of_zones, zoneidx>>
           ELSE /\ num_of_zones' = n.n /\ zoneidx' = 1
                /\ pc' = "scan" /\ UNCHANGED <<main, exc>>
    /\ UNCHANGED held /\ UNCHANGED rcvd /\ UNCHANGED zone

\* the head of the for loop at line 276: the next get_zone_details, or
\* line 434 once the range is exhausted
ScanNext ==
    /\ pc = "scan"
    /\ IF zoneidx <= num_of_zones
       THEN /\ Sendcommand("get_zone_details", CMD_GETZONEDETAILS, Str(<<zoneidx>>), now)
            /\ UNCHANGED <<main, logged>>
       ELSE /\ main' = "event_loop" /\ pc' = "idle"
            /\ UNCHANGED <<body, op, cmd, retries, response, result, nextseq,
                           last_sequence, last_command, last_command_time,
                           wire, allocs, logged>>
    /\ UNCHANGED <<exc, now>> /\ UNCHANGED rcvd /\ UNCHANGED scan

\* variant: a zone whose details could not be read is passed over and the
\* scan goes on with the next one
GetZoneDetailsReturn_skip ==
    /\ pc = "ret" /\ op = "get_zone_details"
    /\ LET z == GetZoneDetailsResult(result)
       IN  IF z.exc # "ok"
           THEN /\ zone' = zone /\ zoneidx' = zoneidx + 1
                /\ pc' = "scan" /\ UNCHANGED <<main, exc>>
           ELSE /\ zone' = (zoneidx :> z.ret) @@ zone
                /\ zoneidx' = zoneidx + 1
                /\ pc' = "scan" /\ UNCHANGED <<main, exc>>
    /\ UNCHANGED held /\ UNCHANGED rcvd /\ UNCHANGED num_of_zones

\* get_zone_details returns to line 278; lines 279-284
GetZoneDetailsReturn ==
    /\ pc = "ret" /\ op = "get_zone_details"
    /\ LET z == GetZoneDetailsResult(result)
       IN  IF z.exc # "ok" THEN Raise(z.exc) /\ UNCHANGED <<zone, zoneidx>>
           ELSE /\ zone' = (zoneidx :> z.ret) @@ zone
                /\ zoneidx' = zoneidx + 1
                /\ pc' = "scan" /\ UNCHANGED <<main, exc>>
    /\ UNCHANGED held /\ UNCHANGED rcvd /\ UNCHANGED num_of_zones

\* recv in event_loop delivers data at time t (line 296): whatever
\* recvresponse returns is dropped and the loop goes round
EventLoopRecvAt(data, t) ==
    /\ pc = "idle" /\ s = "open"
    /\ now' = t
    /\ \E r \in {recvresponse(data, last_sequence, last_received_seq, zone,
                             garage_pir_activated_at)} :
           /\ lastrecv' = Observed(r)
           /\ s' = r.s
           /\ last_received_seq' = r.lrs
           /\ nmsgs' = Counted(nmsgs, r)
           /\ IF r.kind = "raise"
              THEN Raise(r.exc) /\ garage_pir_activated_at' = r.garage
              ELSE /\ UNCHANGED <<main, pc, exc>>
                   /\ garage_pir_activated_at' =
                        IF r.kind = "return" THEN EventLoopTop(r.garage, t)
                        ELSE r.garage
    /\ UNCHANGED <<body, op, cmd, retries, response, result, nextseq, last_sequence,
                   last_command, last_command_time, wire, allocs, logged>>
    /\ UNCHANGED scan

\* the frame is there when recv is called and is read at once
EventLoopRecv(data) == EventLoopRecvAt(data, now)

\* recv in event_loop after "+++" set self.s to None
EventLoopClosed ==
    /\ pc = "idle" /\ s = "None"
    /\ Raise("AttributeError")
    /\ UNCHANGED held /\ UNCHANGED rcvd /\ UNCHANGED scan

\* recv in event_loop times out (lines 298-310)
EventLoopTimeout ==
    /\ pc = "idle" /\ s = "open"
    /\ now + SOCKET_TIMEOUT <= MaxTime
    /\ now' = now + SOCKET_TIMEOUT
    /\ lastrecv' = TimedOut
    /\ IF last_command_time <= 0
       THEN /\ Raise("AssertionError")
            /\ UNCHANGED <<body, op, cmd, retries, response, result, nextseq, last_sequence,
                           last_command, last_command_time, wire, allocs>>
            /\ UNCHANGED garage_pir_activated_at
       ELSE IF KeepaliveDue(now', last_command_time)
       THEN /\ Sendcommand("get_date_time", CMD_GETDATETIME, NoneV, now')
            /\ UNCHANGED <<main, exc, garage_pir_activated_at>>
       ELSE /\ UNCHANGED <<main, pc, exc>>
            /\ UNCHANGED <<body, op, cmd, retries, response, result, nextseq, last_sequence,
                           last_command, last_command_time, wire, allocs>>
            /\ garage_pir_activated_at' = EventLoopTop(garage_pir_activated_at, now')
    /\ UNCHANGED <<logged, last_received_seq, s, nmsgs>>
    /\ UNCHANGED scan

Next ==
    \/ Connect
    \/ MainLogin
    \/ MainSetEventMessages
    \/ MainGetDateTime
    \/ MainGetAllZones
    \/ (pc = "wait" /\ \E data \in RxInputs : SendcommandRecv(data))
    \/ SendcommandTimeout
    \/ LoginReturn
    \/ SetEventMessagesReturn
    \/ GetDateTimeReturn
    \/ GetPanelIdentificationReturn
    \/ ScanNext
    \/ GetZoneDetailsReturn
    \/ (pc = "idle" /\ s = "open" /\ \E data \in RxIdle : EventLoopRecv(data))
    \/ EventLoopClosed
    \/ EventLoopTimeout

Spec == Init /\ [][Next]_vars

\* ----------------------------------------------- the sequence counter alone
\* one call of getnextseq as sendcommandbody makes it (line 146)
AllocSequence ==
    /\ allocs < MaxAllocs
    /\ LET g == getnextseq(nextseq)
       IN  nextseq' = g.nextseq /\ last_sequence' = g.next
    /\ allocs' = allocs + 1
    /\ UNCHANGED <<main, pc, body, op, cmd, retries, response, result, exc,
                   num_of_zones, zoneidx, last_command, last_command_time,
                   last_received_seq, zone, s, garage_pir_activated_at, now,
                   wire, lastrecv, logged, nmsgs>>

NextSeq == AllocSequence

SpecSeq == Init /\ [][NextSeq]_vars

\* ------------------------------------------------------ the zone scan alone
MaxScanZones == 3

\* line 432 is reached: login, set_event_messages and get_date_time were
\* each answered at once by the reply they ask for
Booted ==
    /\ main = "get_all_zones" /\ pc = "run" /\ op = "get_date_time"
    /\ cmd = CMD_GETDATETIME /\ body = <<CMD_GETDATETIME>>
    /\ retries = RETRIES - 1
    /\ response = Str(<<CMD_GETDATETIME>> \o DateTimeBody)
    /\ result = Str(DateTimeBody) /\ exc = "ok"
    /\ num_of_zones = 0 /\ zoneidx = 0
    /\ nextseq = 3 /\ last_sequence = 2
    /\ last_command = CommandFrame(2, <<CMD_GETDATETIME>>)
    /\ last_command_time = 1 /\ last_received_seq = -1
    /\ zone = <<>> /\ s = "open" /\ garage_pir_activated_at = 0
    /\ now = 1 /\ wire = <<last_command>>
    /\ lastrecv = [what |-> "response", seq |-> 2, payload |-> <<>>]
    /\ logged = "" /\ allocs = 3 /\ nmsgs = 0

\* what the panel sends during the scan: identifications announcing 0 to
\* MaxScanZones zones, zone details of full and of short length, a reply
\* with another opcode, and a ZoneEvent for zone 1
ScanBodies ==
    {IdentBody(n) : n \in 0..MaxScanZones} \cup {ZoneDetailsBody, Take(ZoneDetailsBody, 20)}
RxScan ==
    {Response(last_sequence, <<cmd>> \o b) : b \in ScanBodies}
    \cup {Response(last_sequence, <<CMD_GETLCDDISPLAY>> \o ZoneDetailsBody)}
    \cup (IF nmsgs < MaxMessages
          THEN {Message((last_received_seq + 1) % 256, <<MSG_ZONEEVENT, 1, 1>>)}
          ELSE {})

NextScan ==
    \/ MainGetAllZones
    \/ (pc = "wait" /\ \E data \in RxScan : SendcommandRecv(data))
    \/ SendcommandTimeout
    \/ GetPanelIdentificationReturn
    \/ ScanNext
    \/ GetZoneDetailsReturn

SpecScan == Booted /\ [][NextScan]_vars

\* ------------------------- sendcommandbody and recvresponse back to back
MaxBody == 3
\* the longest body whose length byte chr(len(body)+5) exists (line 148)
LongBody == 250

\* bodies of up to MaxBody bytes over the two extreme byte values, and two
\* bodies of the greatest length
CodecBodies ==
    UNION {[1..n -> {0, 255}] : n \in 0..MaxBody}
    \cup {[i \in 1..LongBody |-> (7 * i) % 256], [i \in 1..LongBody |-> 255]}

\* a connected client whose counter stands anywhere, about to send body
InitCodec ==
    /\ main = "login" /\ pc = "run" /\ op = "none" /\ cmd = 0
    /\ body \in CodecBodies
    /\ retries = 0 /\ response = Unbound /\ result = Unbound /\ exc = "ok"
    /\ num_of_zones = 0 /\ zoneidx = 0
    /\ nextseq \in 0..255 /\ last_sequence = nextseq - 1 /\ last_command = <<>>
    /\ last_command_time = 0 /\ last_received_seq = -1
    /\ zone = <<>> /\ s = "open" /\ garage_pir_activated_at = 0
    /\ now = 1 /\ wire = <<>> /\ lastrecv = NoRecv /\ logged = ""
    /\ allocs = nextseq /\ nmsgs = 0

\* sendcommandbody(body), lines 145-155
CodecEncode ==
    /\ pc = "run" /\ op = "none"
    /\ Sendcommandbody(body, now)
    /\ op' = "sendcommandbody" /\ pc' = "wait"
    /\ UNCHANGED <<main, body, cmd, retries, response, result, exc, now, logged>>
    /\ UNCHANGED rcvd /\ UNCHANGED scan

\* recvresponse reads the frame that was sent (lines 99-143) and returns
CodecDecode ==
    /\ pc = "wait" /\ op = "sendcommandbody"
    /\ LET r == recvresponse(last_command, last_sequence, last_received_seq, zone,
                             garage_pir_activated_at)
       IN  /\ lastrecv' = Observed(r)
           /\ s' = r.s
           /\ last_received_seq' = r.lrs
           /\ garage_pir_activated_at' = r.garage
           /\ nmsgs' = Counted(nmsgs, r)
           /\ result' = r.value
           /\ pc' = "ret"
    /\ UNCHANGED <<main, body, op, cmd, retries, response, exc, nextseq,
                   last_sequence, last_command, last_command_time, wire,
                   allocs, now, logged>>
    /\ UNCHANGED scan

NextCodec ==
    \/ CodecEncode
    \/ CodecDecode

SpecCodec == InitCodec /\ [][NextCodec]_vars

\* -------------------------------------------- the handler in event_loop
\* line 434 is reached with n zones (0 < n < 252): every command from login
\* to the last get_zone_details was answered at once by the reply it asks for
AfterScan(n) ==
    /\ main = "event_loop" /\ pc = "idle" /\ op = "get_zone_details"
    /\ cmd = CMD_GETZONEDETAILS /\ body = <<CMD_GETZONEDETAILS, n>>
    /\ retries = RETRIES - 1
    /\ response = Str(<<CMD_GETZONEDETAILS>> \o ZoneDetailsBody)
    /\ result = Str(ZoneDetailsBody) /\ exc = "ok"
    /\ num_of_zones = n /\ zoneidx = n + 1
    /\ nextseq = n + 4 /\ last_sequence = n + 3
    /\ last_command = CommandFrame(n + 3, <<CMD_GETZONEDETAILS, n>>)
    /\ last_command_time = 1 /\ last_received_seq = -1
    /\ zone = [z \in 1..n |-> GetZoneDetailsResult(Str(ZoneDetailsBody)).ret]
    /\ s = "open" /\ garage_pir_activated_at = 0
    /\ now = 1 /\ wire = <<last_command>>
    /\ lastrecv = [what |-> "response", seq |-> n + 3, payload |-> <<>>]
    /\ logged = "" /\ allocs = n + 4 /\ nmsgs = 0

\* a panel of one zone and a panel whose zones include the garage zone
InitHandler == \E n \in {1, GARAGE_ZONE} : AfterScan(n)

\* ZoneEvents in the 2-byte form (zone, bitmap) and in the 3-byte form
\* (zone low byte, zone high byte, bitmap)
ZoneBitmaps == {0, 1, 2, 3, 16, 17}
ZoneEventPayloads ==
    {<<MSG_ZONEEVENT, z, b>> : z \in {1, GARAGE_ZONE}, b \in ZoneBitmaps}
    \cup {<<MSG_ZONEEVENT, z, h, b>> : z \in {1, GARAGE_ZONE}, h \in {0, 1}, b \in ZoneBitmaps}
RxHandler ==
    IF nmsgs < MaxMessages
    THEN {Message((last_received_seq + 1) % 256, m) : m \in ZoneEventPayloads}
    ELSE {}

NextHandler == pc = "idle" /\ s = "open" /\ \E data \in RxHandler : EventLoopRecv(data)

SpecHandler == InitHandler /\ [][NextHandler]_vars

\* ------------------------------------- a panel that keeps sending Messages
\* event_loop on a panel of one zone
InitStream == AfterScan(1)

\* the next Message of the panel's sequence, and the reply get_date_time
\* asks for
StreamMessage == Message((last_received_seq + 1) % 256, <<MSG_DEBUG, 1>>)
StreamReply == Response(last_sequence, <<cmd>> \o DateTimeBody)

\* a Message may be there at once or arrive while recv is blocked, before
\* the timeout of 2 seconds runs out
NextStream ==
    \/ EventLoopTimeout
    \/ SendcommandTimeout
    \/ GetDateTimeReturn
    \/ (pc = "idle" /\ s = "open" /\ \E d \in 0..(SOCKET_TIMEOUT - 1), data \in {StreamMessage} :
            now + d <= MaxTime /\ EventLoopRecvAt(data, now + d))
    \/ (pc = "wait" /\ \E data \in {StreamMessage, StreamReply} : SendcommandRecv(data))

SpecStream == InitStream /\ [][NextStream]_vars /\ WF_vars(NextStream)

\* ------------------------------------------------------------------ claims

\* sendcommand left its loop because every recv it made timed out
AllWaitsTimedOut ==
    main = "crashed" /\ result = Unbound /\ response = Unbound
    /\ lastrecv.what = "timeout"

\* sendcommand ended by raising: it returned nothing and the program is over
SendcommandRaised == pc = "end" /\ main = "crashed" /\ result = Unbound /\ op # "none"

\* the last frame read was a Response with the pending sequence and an
\* opcode other than the one asked
MismatchedResponse ==
    /\ lastrecv.what = "response" /\ response.t = "str"
    /\ Len(response.v) > 0 /\ response.v[1] # cmd

\* C1: if every wait for a response times out, sendcommand puts the frame
\* on the wire exactly 3 times, every copy identical and under the same
\* sequence number, and then reports TimeoutError to its caller.
C1_ThreeAttemptsThenTimeoutError ==
    AllWaitsTimedOut =>
        /\ Len(wire) = 3
        /\ \A i \in 1..Len(wire) : wire[i] = wire[1] /\ FrameSeq(wire[i]) = last_sequence
        /\ exc = "TimeoutError"

\* C2: sendcommand returns a payload only when the Response read last
\* carries the sequence of the most recently sent Command and its first
\* byte is the requested opcode; the payload is the rest of that Response.
C2_SuccessOnlyOnMatch ==
    (pc = "ret" /\ result.t = "str") =>
        /\ lastrecv.what = "response"
        /\ lastrecv.seq = last_sequence
        /\ lastrecv.seq = FrameSeq(last_command)
        /\ response.t = "str" /\ Len(response.v) > 0
        /\ response.v[1] = cmd
        /\ cmd = FramePayload(last_command)[1]
        /\ result.v = Tail2(response.v)

C2_Witness ==
    pc = "ret" /\ op = "get_date_time" /\ result = Str(DateTimeBody)

\* C3 as claimed: a sequence-valid Response with another opcode surfaces
\* SessionExpiredError for a Login NAK and OpcodeMismatchError otherwise.
Surfaced ==
    IF pc = "ret" THEN (IF result = NoneV THEN "None" ELSE "payload") ELSE exc

C3_DistinctErrors ==
    (MismatchedResponse /\ (pc = "ret" \/ SendcommandRaised)) =>
        Surfaced = IF response.v[1] = CMD_LOGIN /\ Len(response.v) > 1
                      /\ response.v[2] = CMD_RESPONSE_NAK
                   THEN "SessionExpiredError" ELSE "OpcodeMismatchError"

\* C3 amended: on a sequence-valid Response with another opcode sendcommand
\* returns None, whether the opcode is Login with a NAK first payload byte
\* (logged as an expired session) or anything else (logged as a wrong
\* command id); a Login opcode with no payload byte raises IndexError; in
\* no case is the frame sent again.
C3_MismatchReturnsNone ==
    [][(pc = "wait" /\ MismatchedResponse') =>
        /\ wire' = wire /\ retries' = retries
        /\ IF response'.v[1] = CMD_LOGIN /\ Len(response'.v) = 1
           THEN SendcommandRaised' /\ exc' = "IndexError"
           ELSE /\ pc' = "ret" /\ result' = NoneV
                /\ logged' = IF response'.v[1] = CMD_LOGIN
                                /\ response'.v[2] = CMD_RESPONSE_NAK
                             THEN "session has timed out"
                             ELSE "wrong command id"]_vars

C3_Witness ==
    /\ pc = "ret" /\ op = "set_event_messages" /\ MismatchedResponse
    /\ result = NoneV /\ logged = "session has timed out"

\* C4: successive calls of getnextseq return 0, 1, ..., 255, 0, 1, ...:
\* each value is in 0..255 and is the previous one plus 1 modulo 256.
C4_SequenceWraps ==
    [][allocs' = allocs + 1 =>
        /\ last_sequence' \in 0..255
        /\ last_sequence' = IF allocs = 0 THEN 0 ELSE (last_sequence + 1) % 256]_vars

C4_Witness == allocs = 258 /\ last_sequence = 1

\* C5: a Message is handed to the handler only if it is the first of the
\* session or carries the last seen sequence plus 1 modulo 256, and its
\* sequence then becomes the last seen one.
C5_MessageDelivery ==
    [][(pc \in {"wait", "idle"} /\ lastrecv'.what = "message") =>
        /\ (last_received_seq = -1
            \/ lastrecv'.seq = (last_received_seq + 1) % 256)
        /\ last_received_seq' = lastrecv'.seq
        /\ nmsgs' = nmsgs + 1]_vars

C5_Witness ==
    lastrecv.what = "message" /\ lastrecv.seq = 0 /\ nmsgs = 2 /\ last_received_seq = 0

\* C6: while a command awaits its Response, an accepted Message is handed
\* to the handler and the wait goes on: it does not end the exchange, use
\* up a retry or cause a retransmission.
C6_MessageKeepsWaiting ==
    [][(pc = "wait" /\ lastrecv'.what = "message") =>
        /\ pc' = "wait" /\ main' = main
        /\ retries' = retries /\ wire' = wire
        /\ response' = response]_vars

C9_Keepalive ==
    [][pc = "idle" =>
        /\ (allocs' # allocs <=>
                (lastrecv'.what = "timeout" /\ now' # now
                 /\ now' - last_command_time > 30))
        /\ (allocs' # allocs =>
                /\ pc' = "wait" /\ op' = "get_date_time" /\ main' = "event_loop"
                /\ cmd' = CMD_GETDATETIME /\ retries' = RETRIES - 1
                /\ wire' = <<CommandFrame(last_sequence', <<CMD_GETDATETIME>>)>>
                /\ last_command_time' = now')]_vars

C9_Witness ==
    main = "event_loop" /\ pc = "wait" /\ op = "get_date_time" /\ Len(wire) = 2

\* C10: once "+++" was read the session is over: it is recognised without
\* parsing a frame, and after it nothing is read, no Message is handled and
\* nothing is sent.
C10_DroppedIsTerminal ==
    [][/\ (lastrecv'.what = "+++" =>
              s' = "None" /\ exc' \in {"ok", "TypeError", "AttributeError"})
       /\ (lastrecv.what = "+++" =>
              /\ lastrecv' = lastrecv /\ nmsgs' = nmsgs
              /\ last_received_seq' = last_received_seq
              /\ wire' = wire /\ allocs' = allocs
              /\ pc' = "end" /\ main' = "crashed")]_vars

C10_Witness ==
    main = "crashed" /\ exc = "AttributeError" /\ lastrecv.what = "+++" /\ s = "None"

\* C11: get_all_zones asks for zones 1..num_of_zones in ascending order, one
\* at a time, and stops at the first zone whose get_zone_details fails: the
\* registry then holds exactly the zones before it, no further query is
\* sent, and the call does not return but ends with an exception; it
\* returns only with every zone registered.
ZoneAsked == body[2]

C11_ScanStopsAtFirstFailure ==
    [][/\ (op' = "get_zone_details" /\ allocs' # allocs =>
              /\ body' = <<CMD_GETZONEDETAILS, Cardinality(DOMAIN zone) + 1>>
              /\ DOMAIN zone = 1..(ZoneAsked' - 1)
              /\ ZoneAsked' <= num_of_zones)
       /\ (op = "get_zone_details" /\ pc \in {"wait", "ret"} /\ pc' # "wait" =>
              \/ /\ pc' = "ret" /\ zone' = zone
              \/ /\ pc' = "scan" /\ pc = "ret" /\ GetZoneDetailsResult(result).exc = "ok"
                 /\ DOMAIN zone' = 1..ZoneAsked
              \/ /\ main' = "crashed" /\ exc' # "ok" /\ zone' = zone
                 /\ DOMAIN zone' = 1..(ZoneAsked - 1)
                 /\ allocs' = allocs)
       /\ (main' = "event_loop" => DOMAIN zone' = 1..num_of_zones)
       /\ main # "crashed"]_vars

C11_Witness ==
    /\ main = "crashed" /\ exc = "TypeError" /\ op = "get_zone_details"
    /\ pc = "end" /\ result = NoneV /\ logged = "wrong command id"
    /\ num_of_zones = 3 /\ ZoneAsked = 2 /\ DOMAIN zone = {1}

\* C12: __main__ goes through connect, login, set_event_messages,
\* get_date_time, get_all_zones and event_loop in this order only; the
\* SetEventMessages command is sent only after login returned True on an
\* ACK, everything later only after set_event_messages returned True on an
\* ACK; a NAK to login ends the program with nothing sent; once the program
\* has exited or crashed nothing changes any more.
Stage(m) ==
    CASE m = "connect" -> 0
      [] m = "login" -> 1
      [] m = "set_event_messages" -> 2
      [] m = "get_date_time" -> 3
      [] m = "get_all_zones" -> 4
      [] m = "event_loop" -> 5
      [] OTHER -> 6

Over == {"exit", "crashed"}

AckPending == pc = "ret" /\ op \in {"login", "set_event_messages"}

\* C13 as claimed: ACK gives true, NAK gives false, and any other payload
\* gives an error instead of true or false.
C13_OtherPayloadIsError ==
    [][AckPending =>
        IF result = Str(<<CMD_RESPONSE_ACK>>)
        THEN main' \notin Over /\ Stage(main') = Stage(main) + 1
        ELSE IF result = Str(<<CMD_RESPONSE_NAK>>)
        THEN main' = "exit"
        ELSE main' = "crashed" /\ exc' # "ok"]_vars

\* C13 amended: ACK gives True; NAK gives False; any other single byte
\* gives False as well, so __main__ exits as it does on NAK; a payload that
\* is not one byte long, or None in place of a payload, raises TypeError.
C13_OtherByteIsFalse ==
    [][AckPending =>
        IF result = Str(<<CMD_RESPONSE_ACK>>)
        THEN main' \notin Over /\ Stage(main') = Stage(main) + 1
        ELSE IF result.t = "str" /\ Len(result.v) = 1
        THEN main' = "exit" /\ exc' = "ok"
        ELSE main' = "crashed" /\ exc' = "TypeError"]_vars

C13_Witness ==
    main = "exit" /\ op = "login" /\ result = Str(<<7>>) /\ exc = "ok"

\* recvresponse is about to read a frame sendcommandbody built
EchoPending == pc = "wait" /\ op = "sendcommandbody"

\* C14 as claimed: reading back the bytes sendcommandbody produced gives the
\* frame back: kind Command, the same sequence, the same payload, a length
\* byte of 5 plus the payload length, and no framing or checksum error.
C14_RoundTrip ==
    [][EchoPending =>
        /\ lastrecv'.what = "command"
        /\ lastrecv'.seq = last_sequence
        /\ lastrecv'.payload = body
        /\ last_command[3] = 5 + Len(body)
        /\ result' # NoneV]_vars

\* C14 amended: recvresponse parses the bytes back to the same sequence and
\* payload under a length byte of 5 plus the payload length, finds the start
\* marker and the checksum right and the kind Command, and for that kind
\* returns None: the frame is not handed back.
C14_ParsedThenRefused ==
    [][EchoPending =>
        /\ lastrecv'.what = "command"
        /\ lastrecv'.seq = last_sequence
        /\ lastrecv'.payload = body
        /\ last_command[3] = 5 + Len(body)
        /\ Len(last_command) = last_command[3]
        /\ result' = NoneV /\ s' = "open"
        /\ last_received_seq' = last_received_seq]_vars

C14_Witness ==
    /\ pc = "ret" /\ op = "sendcommandbody" /\ Len(body) = LongBody
    /\ last_sequence = 255 /\ lastrecv.what = "command"
    /\ lastrecv.payload = body /\ result = NoneV

\* the Message just handed to the handler is a ZoneEvent of 2 or 3 bytes
ZoneEventHandled ==
    /\ lastrecv.what = "message" /\ Len(lastrecv.payload) \in {3, 4}
    /\ lastrecv.payload[1] = MSG_ZONEEVENT
ZoneHandled == ZoneEventDecode(Tail2(lastrecv.payload))

\* C15: for a ZoneEvent in the 2-byte or the 3-byte form whose zone is in
\* the registry, the handler returns, and the garage rule follows the zone
\* number and bitmap debug_print_message decoded: for zone 73 the activation
\* time is set when (bitmap & 3) = 1 and cleared to 0 otherwise, and for
\* any other zone it is left alone.
C15_WatchRuleFollowsDecoder ==
    [][(pc = "idle" /\ ZoneEventHandled' /\ lastrecv' # lastrecv
            /\ ZoneHandled'.zone_number \in DOMAIN zone) =>
        /\ main' = main /\ pc' = "idle" /\ exc' = "ok"
        /\ garage_pir_activated_at' =
              IF ZoneHandled'.zone_number # GARAGE_ZONE THEN garage_pir_activated_at
              ELSE IF ZoneHandled'.zone_bitmap % 4 = 1 THEN now'
              ELSE 0]_vars

\* C16: a Message refused for its sequence leaves last_received_seq as it
\* was, and a Message read right after the refusal is handed to the handler
\* only if it carries the sequence that was expected before the refusal.
C16_RefusalKeepsExpectation ==
    [][/\ (lastrecv'.what = "msgseq" /\ pc \in {"wait", "idle"} =>
              /\ last_received_seq' = last_received_seq
              /\ nmsgs' = nmsgs
              /\ garage_pir_activated_at' = garage_pir_activated_at)
       /\ (lastrecv.what = "msgseq" /\ lastrecv'.what = "message" =>
              /\ lastrecv'.seq = (last_received_seq + 1) % 256
              /\ last_received_seq' = lastrecv'.seq)]_vars

C16_Witness ==
    /\ lastrecv.what = "msgseq" /\ pc = "idle" /\ main = "event_loop"
    /\ last_received_seq = 0 /\ nmsgs = 1

\* C17: once set_event_messages has returned True, a ZoneEvent is handed to
\* the handler only when the zone number it decodes to is in the registry
\* at that moment, whichever exchange it arrives in.
C17_ZoneKnownAtDispatch ==
    [][(Stage(main) \in 3..5 /\ ZoneEventHandled' /\ lastrecv' # lastrecv) =>
            ZoneHandled'.zone_number \in DOMAIN zone]_vars

\* the recv in progress can still time out before the modelled clock ends
BeforeHorizon == now + SOCKET_TIMEOUT <= MaxTime

\* C18: every sendcommand that waits for its Response ends, whatever
\* Messages arrive meanwhile (or the modelled clock runs out first).
C18_SendcommandEnds ==
    (pc = "wait" /\ BeforeHorizon) ~> (pc # "wait" \/ ~BeforeHorizon)

\* C19: whenever event_loop is reading and more than 30 seconds have passed
\* since the last command, the keepalive exchange is eventually begun,
\* whatever Messages arrive meanwhile (or the modelled clock runs out first).
C19_KeepaliveEventually ==
    (pc = "idle" /\ now - last_command_time > KEEPALIVE_AFTER /\ BeforeHorizon)
        ~> (pc = "wait" \/ ~BeforeHorizon)

\* C20: a sendcommand takes exactly one sequence number, the successor
\* (mod 256) of the command before, whether that one succeeded or failed;
\* the frame it sends carries it, and while it waits, retransmitting or
\* not, no further number is taken and every frame sent carries the same one.
C20_OneSequencePerCommand ==
    [][/\ (pc # "wait" /\ pc' = "wait" =>
              /\ allocs' = allocs + 1
              /\ last_sequence' = IF allocs = 0 THEN 0 ELSE (last_sequence + 1) % 256
              /\ wire' = <<last_command'>>
              /\ FrameSeq(last_command') = last_sequence')
       /\ (pc = "wait" =>
              /\ allocs' = allocs /\ nextseq' = nextseq
              /\ last_sequence' = last_sequence
              /\ \A i \in 1..Len(wire') : FrameSeq(wire'[i]) = last_sequence)
       /\ (allocs' # allocs => pc # "wait" /\ pc' = "wait")]_vars

\* get_panel_identification waits under sequence 3 after get_date_time got
\* a reply with another opcode and an earlier recv had timed out
C20_Witness ==
    /\ pc = "wait" /\ op = "get_panel_identification"
    /\ logged = "wrong command id" /\ now >= 1 + SOCKET_TIMEOUT
    /\ allocs = 4 /\ last_sequence = 3

====
